---------------------------- MODULE Spec2Model ----------------------------
(***************************************************************************)
(* A model of the kokkoro plugin host: the plugin registry (import,        *)
(* reload, destroy, bind, unbind), the Plugin bind/unbind state machine    *)
(* over node's EventEmitter, the option merge and the permission resolver. *)
(***************************************************************************)
EXTENDS Integers, Sequences, FiniteSets, TLC

(***************************************************************************)
(* Bounds of the model.                                                    *)
(***************************************************************************)
\* Plugin instances that module loads may construct in one run.
MaxInst == 2
\* Highest activity level a sender is drawn with.
MaxLevel == 6
\* how many words follow the command's name in a message
MaxWords == 2

(***************************************************************************)
(* The accounts, groups, events and names of the modelled host.            *)
(***************************************************************************)
Uins == {1, 2}
Groups == {10, 20}
Inst == 1..MaxInst
NoInst == 0

\* the event names a plugin's code registers: one command() and one listen()
EventOrder == <<"message", "notice">>
EventNames == {EventOrder[k] : k \in 1..Len(EventOrder)}

\* A name is a sequence of tokens, so that the prefix can be told apart from
\* the rest of the name: "kokkoro-plugin-demo" is <<PFX, "demo">>.
PFX == "kokkoro-plugin-"
RawNames == {<<"demo">>, <<PFX, "demo">>, <<"bad">>, <<"ghost">>}
\* the names the registry's bind and unbind are called with
BindNames == {<<"demo">>, <<PFX, "demo">>}

(***************************************************************************)
(* Helpers on sequences.                                                   *)
(***************************************************************************)
Range(s) == {s[k] : k \in 1..Len(s)}

Count(s, x) == Cardinality({k \in 1..Len(s) : s[k] = x})

\* s without its element at position p
RemoveAt(s, p) == [k \in 1..(Len(s) - 1) |-> IF k < p THEN s[k] ELSE s[k + 1]]

\* s without every occurrence of x, order kept
Without(s, x) == SelectSeq(s, LAMBDA y : y # x)

\* position of the first / last occurrence of x in s, 0 when absent
FirstIndex(s, x) ==
  IF x \in Range(s) THEN CHOOSE k \in 1..Len(s) : s[k] = x /\ \A j \in 1..(k - 1) : s[j] # x
  ELSE 0

LastIndex(s, x) ==
  IF x \in Range(s) THEN CHOOSE k \in 1..Len(s) : s[k] = x /\ \A j \in (k + 1)..Len(s) : s[j] # x
  ELSE 0

Max(a, b) == IF a >= b THEN a ELSE b


(***************************************************************************)
(* Names: importPlugin strips the conventional prefix with                 *)
(* name.replace('kokkoro-plugin-', ''), which removes its first occurrence.*)
(***************************************************************************)
StripPrefixNever(n) == n

StripPrefix(n) ==
  LET p == FirstIndex(n, PFX) IN IF p = 0 THEN n ELSE RemoveAt(n, p)

\* 'kokkoro-plugin-' + name
AddPrefix(n) == <<PFX>> \o n

\* the keys the registry can hold
RegKeys == {StripPrefix(n) : n \in RawNames}

(***************************************************************************)
(* Option values.  An Option maps keys to values; a value is a scalar      *)
(* (boolean) or an array of numbers.  A value is the record                *)
(* [arr, s, a]: arr tells an array (a) from a scalar (s).                  *)
(***************************************************************************)
Scalar(b) == [arr |-> FALSE, s |-> b, a |-> <<>>]
Array(q) == [arr |-> TRUE, s |-> FALSE, a |-> q]

EmptyOption == [k \in {} |-> Scalar(FALSE)]

\* an object that may be undefined: [def, o]
Undefined == [def |-> FALSE, o |-> EmptyOption]
Defined(o) == [def |-> TRUE, o |-> o]

\* the constructor's default option, { apply: true, lock: false }
DefaultOption == [k \in {"apply", "lock"} |-> IF k = "apply" THEN Scalar(TRUE) ELSE Scalar(FALSE)]

\* deepMerge of an array target: Object.keys of an array source are its
\* indices, each element of the target is a scalar and is overwritten by the
\* source's element; Object.keys of a boolean or number source is empty.
MergeArray(t, v) ==
  IF v.arr
  THEN Array([k \in 1..Max(Len(t.a), Len(v.a)) |-> IF k <= Len(v.a) THEN v.a[k] ELSE t.a[k]])
  ELSE t

\* one key of deepMerge: typeof target[key] === 'object' recurses, anything
\* else (a scalar, or no such key in the target) takes the source's value
MergeKey(target, key, v) ==
  IF key \in DOMAIN target /\ target[key].arr THEN MergeArray(target[key], v) ELSE v

MergeObjectDropKeys(target, sources) ==
  [k \in DOMAIN target |-> IF k \in DOMAIN sources THEN MergeKey(target, k, sources[k]) ELSE target[k]]

\* deepMerge(target, sources) on two defined objects
MergeObject(target, sources) ==
  [k \in (DOMAIN target) \cup (DOMAIN sources) |->
     IF k \in DOMAIN sources THEN MergeKey(target, k, sources[k]) ELSE target[k]]

\* deepMerge(target, sources): Object.keys(undefined) throws a TypeError.
\* The result is [err, o].
deepMerge(target, sources) ==
  IF ~sources.def THEN [err |-> TRUE, o |-> target]
  ELSE [err |-> FALSE, o |-> MergeObject(target, sources.o)]

\* deepClone: JSON.parse(JSON.stringify(object)), a copy equal to the object
\* for booleans, numbers and arrays of numbers
deepClone(object) == [k \in DOMAIN object |-> object[k]]

(***************************************************************************)
(* getUserLevel.  A sender has a user_id and, in a group, a level and a    *)
(* role; a missing level or role is NoLevel / "undefined" and takes the    *)
(* destructuring default.                                                  *)
(***************************************************************************)
\* A user id is only ever looked up in a set, so it is modelled by its
\* numeral; the one maintainer is parseInt('84a11e2b', 16).
admins == {"84a11e2b"}
NoLevel == -1

UserIds == {"84a11e2b", "10001", "10002"}
Roles == {"owner", "admin", "member", "undefined"}
Levels == (0..MaxLevel) \cup {NoLevel}
Senders == [user_id : UserIds, level : Levels, role : Roles]

getUserLevelNoMaintainer(masters, sender) ==
  LET level == IF sender.level = NoLevel THEN 0 ELSE sender.level
      role == IF sender.role = "undefined" THEN "member" ELSE sender.role
  IN CASE sender.user_id \in masters -> 5
       [] role = "owner" -> 4
       [] role = "admin" -> 3
       [] level > 4 -> 2
       [] level > 2 -> 1
       [] OTHER -> 0

getUserLevel(masters, sender) ==
  LET level == IF sender.level = NoLevel THEN 0 ELSE sender.level
      role == IF sender.role = "undefined" THEN "member" ELSE sender.role
  IN IF sender.user_id \in admins THEN 6
     ELSE IF sender.user_id \in masters THEN 5
     ELSE IF role = "owner" THEN 4
     ELSE IF role = "admin" THEN 3
     ELSE IF level > 4 THEN 2
     ELSE IF level > 2 THEN 1
     ELSE 0

(***************************************************************************)
(* Command dispatch: Plugin.parse hands a message to every command that     *)
(* matches it, and Plugin.runCommand validates the parsed arguments and     *)
(* gates the command's handler.  The Command class itself (isMatched,       *)
(* parseArgs, isLimit, isApply) is not part of the files modelled; it is    *)
(* modelled as the design document describes it.  What a dispatch does is   *)
(* the sequence of its effects: replies, and calls of the command's         *)
(* handler (func) or stop fallback.                                         *)
(***************************************************************************)
Words == {"apply", "true"}
WordLists == UNION {[1..n -> Words] : n \in 0..MaxWords}

\* Command.args: one entry for every <x>, [x] or <...x> of the pattern
Arg(required, variadic, value) ==
  [required |-> required, variadic |-> variadic, value |-> value]

\* help; update <key> <value>; get <key> [value]; add <...keys>;
\* tag [key] <...rest>
Patterns ==
  {<<>>,
   <<Arg(TRUE, FALSE, "key"), Arg(TRUE, FALSE, "value")>>,
   <<Arg(TRUE, FALSE, "key"), Arg(FALSE, FALSE, "value")>>,
   <<Arg(TRUE, TRUE, "keys")>>,
   <<Arg(FALSE, FALSE, "key"), Arg(TRUE, TRUE, "rest")>>}

\* a parsed slot: a word, a list of words, or the empty value of a slot that
\* no word was supplied for
NoWord == [kind |-> "undefined", w |-> "", l |-> <<>>]
Word(w) == [kind |-> "word", w |-> w, l |-> <<>>]
List(l) == [kind |-> "list", w |-> "", l |-> l]

\* Command.parseArgs: the words after the command's name, as slots aligned to
\* the declared arguments; a variadic argument collects the remaining words
parseArgs(declared, words) ==
  [i \in 1..Len(declared) |->
     IF declared[i].variadic
     THEN List(IF i > Len(words) THEN <<>> ELSE SubSeq(words, i, Len(words)))
     ELSE IF i <= Len(words) THEN Word(words[i]) ELSE NoWord]

Scopes == {"all", "group", "private", "discuss"}
MessageTypes == {"group", "private", "discuss"}
DispatchSenders ==
  {[user_id |-> "10001", level |-> 0, role |-> "member"],
   [user_id |-> "10001", level |-> 0, role |-> "owner"]}

\* a command of a plugin: its declared arguments, its message_type (scope),
\* the plugin's prefix, whether it has a handler and a stop fallback, and
\* its permission floor
Commands ==
  [args : Patterns, message_type : Scopes, prefix : {"", "sub"},
   func : BOOLEAN, stop : BOOLEAN, floor : {0, 3}]

\* a message event: the conversation, the sender, the group option's apply
\* flag, and the words after the command's name
Events ==
  [message_type : MessageTypes, sender : DispatchSenders, apply : BOOLEAN,
   words : WordLists]

\* Command.isMatched: the text begins with the command's name (every event
\* here does) and the command is eligible in the conversation
isMatched(cmd, ev) == cmd.message_type \in {"all", ev.message_type}

\* Command.isLimit: the sender's level is below the command's floor
isLimit(cmd, ev) == getUserLevel({}, ev.sender) < cmd.floor

\* Command.isApply: the apply flag of the group's option
isApply(cmd, ev) == ev.apply

Effect(kind) == [kind |-> kind, arg |-> "", variadic |-> FALSE]
ArgumentError(value, variadic) == [kind |-> "argument", arg |-> value, variadic |-> variadic]

\* the loop of runCommand over the parsed slots: the first required argument
\* whose slot is falsy, or is an empty list, is answered with an error and
\* runCommand returns
RECURSIVE ValidateFrom(_, _, _)
ValidateFrom(declared, args, i) ==
  IF i > Len(args) THEN <<>>
  ELSE IF i > Len(declared) THEN <<Effect("TypeError")>>
  ELSE LET argv == args[i]
           falsy == argv.kind = "undefined" \/ (argv.kind = "word" /\ argv.w = "")
           nolength == argv.kind = "list" /\ Len(argv.l) = 0
       IN IF declared[i].required /\ falsy
          THEN <<ArgumentError(declared[i].value, FALSE)>>
          ELSE IF declared[i].required /\ nolength
          THEN <<ArgumentError(declared[i].value, TRUE)>>
          ELSE ValidateFrom(declared, args, i + 1)

ValidateAfterFirst(declared, args) == ValidateFrom(declared, args, 2)

Validate(declared, args) == ValidateFrom(declared, args, 1)

\* the if / else-if chain of runCommand after the validation
GateHandlerFirst(cmd, ev) ==
  IF cmd.func /\ cmd.prefix = "" THEN <<Effect("handler")>>
  ELSE IF isLimit(cmd, ev) THEN <<Effect("permission")>>
  ELSE IF cmd.message_type # "private" /\ cmd.stop /\ ~isApply(cmd, ev)
  THEN <<Effect("stop")>>
  ELSE IF cmd.message_type # "private" /\ cmd.func /\ isApply(cmd, ev)
  THEN <<Effect("handler")>>
  ELSE IF ev.message_type = "private" /\ cmd.func THEN <<Effect("handler")>>
  ELSE <<>>

Gate(cmd, ev) ==
  IF isLimit(cmd, ev) THEN <<Effect("permission")>>
  ELSE IF cmd.func /\ cmd.prefix = "" THEN <<Effect("handler")>>
  ELSE IF cmd.message_type # "private" /\ cmd.stop /\ ~isApply(cmd, ev)
  THEN <<Effect("stop")>>
  ELSE IF cmd.message_type # "private" /\ cmd.func /\ isApply(cmd, ev)
  THEN <<Effect("handler")>>
  ELSE IF ev.message_type = "private" /\ cmd.func THEN <<Effect("handler")>>
  ELSE <<>>

\* runCommand(command), this.args being the parsed slots
runCommand(cmd, ev, args) ==
  IF Validate(cmd.args, args) # <<>> THEN Validate(cmd.args, args) ELSE Gate(cmd, ev)

\* parse(event), for one command of command_list
parse(cmd, ev) ==
  IF isMatched(cmd, ev) THEN runCommand(cmd, ev, parseArgs(cmd.args, ev.words))
  ELSE <<>>

(***************************************************************************)
(* The state of the host.                                                  *)
(***************************************************************************)
VARIABLES
  created,           \* how many Plugin instances module loads have constructed
  plugin_list,       \* the registry: name -> instance (NoInst: no entry)
  require_cache,     \* require.cache: source path -> the instance its module exports
  name,              \* Plugin.name of each instance (<<>> before init)
  path,              \* Plugin.path of each instance ("" before init)
  bot_list,          \* Plugin.bot_list of each instance: the uins, in Map order
  jobs,              \* Plugin.jobs of each instance: each "pending" or "cancelled"
  bind_listeners,    \* each instance's listeners of 'plugin.bind', in order
  unbind_listeners,  \* each instance's once-listeners of 'plugin.unbind', in order
  listeners,         \* each account's event listeners: uin -> event -> instances
  setting,           \* SettingStore: uin -> [plugins, groups]
  roster,            \* each account's group list, in Map order
  dirs,              \* the entries of the plugins and node_modules directories
  hook,              \* what the plugin's code does in onBind
  tasks,             \* the asynchronous calls suspended in findPlugin
  serial,            \* TRUE: callers await each registry call before the next
  last,              \* the call that ran last and how it ended
  delivered,         \* how often the last emitted event reached each instance
  rebind,            \* history: the pair unbound last, and whether it was bound again
  level_call,        \* the last getUserLevel call and its result
  merge_call,        \* the last option merge and its result
  scan_call,         \* the last directory scan and its result
  dispatch_call      \* the last message dispatched to a command and its effects

vars == <<created, plugin_list, require_cache, name, path, bot_list, jobs,
          bind_listeners, unbind_listeners, listeners, setting, roster, dirs,
          hook, tasks, serial, last, delivered, rebind, level_call, merge_call,
          scan_call, dispatch_call>>

\* the variables of the plugin objects, the accounts' emitters and the registry
core == <<created, plugin_list, require_cache, name, path, bot_list, jobs,
          bind_listeners, unbind_listeners, listeners>>

\* the variables only the pure-function calls write
pure == <<level_call, merge_call, scan_call, dispatch_call>>

(***************************************************************************)
(* The part of the state the Plugin methods read and write, as a record,   *)
(* so that one method can run after another inside one step.  err is the   *)
(* error thrown ("" when the call returned).                               *)
(***************************************************************************)
World ==
  [created |-> created, name |-> name, path |-> path,
   plugin_list |-> plugin_list, require_cache |-> require_cache,
   bot_list |-> bot_list, jobs |-> jobs,
   bind_listeners |-> bind_listeners, unbind_listeners |-> unbind_listeners,
   listeners |-> listeners, setting |-> setting, err |-> ""]

Throw(W, e) == [W EXCEPT !.err = e]

\* EventEmitter.on(event, fn): fn is appended; the same fn may be listed twice
AddListener(ls, fn) == Append(ls, fn)

\* EventEmitter.off(event, fn): the last-added occurrence of fn is removed
RemoveListenerAll(ls, fn) == Without(ls, fn)

RemoveListener(ls, fn) ==
  LET p == LastIndex(ls, fn) IN IF p = 0 THEN ls ELSE RemoveAt(ls, p)

\* the closure bindEvents registers: () => bot.off(event_name, fn); the hook
\* registered by onBind is the entry with uin 0
OffClosure(uin, ev) == [uin |-> uin, ev |-> ev]
HookEntry == [uin |-> 0, ev |-> "bind_func"]

(***************************************************************************)
(* Plugin: bindEvents, bindBot, unbindBot, destroy.                        *)
(***************************************************************************)
HookKinds == {"none", "ok", "throws"}

\* Plugin.schedule(cron, func), called once by the plugin's code when its
\* module loads: jobs.push(job) on the empty list
schedule(js) == Append(js, "pending")

JobsAtLoad == schedule(<<>>)

\* Job.cancel() on every job of the list
clearScheduleNone(js) == js

clearSchedule(js) == [k \in 1..Len(js) |-> "cancelled"]

\* bindEvents(bot): for every event name of the plugin, bot.on(event, fn) and
\* this.once('plugin.unbind', () => bot.off(event, fn)); fn is the instance's
\* own parse (message) or its listener's func, so a listener is told by i
bindEventsTwice(W, i, uin) ==
  [W EXCEPT
     !.listeners[uin] = [ev \in EventNames |-> AddListener(AddListener(@[ev], i), i)],
     !.unbind_listeners[i] =
        @ \o [k \in 1..Len(EventOrder) |-> OffClosure(uin, EventOrder[k])]]

bindEvents(W, i, uin) ==
  [W EXCEPT
     !.listeners[uin] = [ev \in EventNames |-> AddListener(@[ev], i)],
     !.unbind_listeners[i] =
        @ \o [k \in 1..Len(EventOrder) |-> OffClosure(uin, EventOrder[k])]]

\* emit('plugin.bind', bot): bindEvents while it is attached, then the
\* onBind callback, which is handed the bot
EmitBind(W, i, uin) ==
  IF "bindEvents" \in Range(W.bind_listeners[i]) THEN bindEvents(W, i, uin) ELSE W

\* emit('plugin.unbind'): every once-listener in the order it was added; a
\* once-listener is removed before it runs.  The onBind callback is handed
\* no bot here, and a callback that reads its bot throws: the listeners
\* after it do not run and stay registered.
RECURSIVE RunUnbind(_, _, _)
RunUnbind(W, i, todo) ==
  IF todo = <<>> THEN W
  ELSE LET c == Head(todo)
           W1 == [W EXCEPT !.unbind_listeners[i] = Tail(@)]
       IN IF c = HookEntry
          THEN IF hook = "throws" THEN Throw(W1, "HookError")
               ELSE RunUnbind(W1, i, Tail(todo))
          ELSE RunUnbind(
                 [W1 EXCEPT !.listeners[c.uin][c.ev] = RemoveListener(@, i)],
                 i, Tail(todo))

EmitUnbind(W, i) == RunUnbind(W, i, W.unbind_listeners[i])

\* Plugin.bindBot(bot)
PluginBindBotNoGuard(W, i, uin) ==
  EmitBind([W EXCEPT !.bot_list[i] = Append(Without(@, uin), uin)], i, uin)

PluginBindBot(W, i, uin) ==
  IF uin \in Range(W.bot_list[i]) THEN Throw(W, "AlreadyBound")
  ELSE EmitBind([W EXCEPT !.bot_list[i] = Append(@, uin)], i, uin)

\* Plugin.unbindBot(bot)
PluginUnbindBotNoGuard(W, i, uin) ==
  EmitUnbind([W EXCEPT !.jobs[i] = clearSchedule(@),
                       !.bot_list[i] = Without(@, uin)], i)

PluginUnbindBot(W, i, uin) ==
  IF uin \notin Range(W.bot_list[i]) THEN Throw(W, "NotBound")
  ELSE EmitUnbind([W EXCEPT !.jobs[i] = clearSchedule(@),
                            !.bot_list[i] = Without(@, uin)], i)

\* a destroyPlugin that leaves require.cache alone
destroyPluginKeepCache(cache, p) == cache

\* destroyPlugin(plugin_path): the module and everything cached from its
\* directory leave require.cache
destroyPlugin(cache, p) == [q \in DOMAIN cache |-> IF q = p THEN NoInst ELSE cache[q]]

\* the loop of destroy: unbindBot for every entry of bot_list, in Map order;
\* an error thrown by one unbindBot ends the loop and destroy
RECURSIVE UnbindEach(_, _, _)
UnbindEach(W, i, bots) ==
  IF bots = <<>> \/ W.err # "" THEN W
  ELSE UnbindEach(PluginUnbindBot(W, i, Head(bots)), i, Tail(bots))

\* Plugin.destroy()
PluginDestroyKeepEntry(W, i) ==
  LET W1 == UnbindEach(W, i, W.bot_list[i])
  IN IF W1.err # "" THEN W1
     ELSE [W1 EXCEPT !.bind_listeners[i] = RemoveListener(@, "bindEvents"),
                     !.require_cache = destroyPlugin(@, W.path[i])]

PluginDestroy(W, i) ==
  LET W1 == UnbindEach(W, i, W.bot_list[i])
  IN IF W1.err # "" THEN W1
     ELSE [W1 EXCEPT !.bind_listeners[i] = RemoveListener(@, "bindEvents"),
                     !.plugin_list[W.name[i]] = NoInst,
                     !.require_cache = destroyPlugin(@, W.path[i])]

(***************************************************************************)
(* The registry: getPlugin, importPlugin, bindBot, unbindBot, bindAllBot.  *)
(***************************************************************************)
Entries == {<<"demo">>, <<PFX, "demo">>, <<"bad">>}
Paths == [dir : {"plugins", "node_modules"}, entry : Entries]
NoPath == [dir |-> "", entry |-> <<>>]

\* plugin_list.has(name)
Has(W, n) == n \in DOMAIN W.plugin_list /\ W.plugin_list[n] # NoInst

\* a check that takes every module's export for a Plugin
ExportsPluginAlways(p) == TRUE

\* whether the module at a path exports a Plugin instance
ExportsPlugin(p) == p.entry # <<"bad">>

\* A directory findPlugin reads is there and readable ("ok"), is not there
\* ("absent"), or is there and cannot be read ("unreadable": it is a file,
\* or the host may not list it).
DirStates == {"ok", "absent", "unreadable"}
DirNames == {"plugins", "modules"}
AllOk == [d \in DirNames |-> "ok"]

\* readdir(dir, { withFileTypes: true }): the entries, or an error
readdir(st, entries) ==
  IF st = "ok" THEN [err |-> "", list |-> entries]
  ELSE [err |-> IF st = "absent" THEN "ENOENT" ELSE "EACCES", list |-> {}]

\* mkdir(dir): makes the directory that is absent, fails for one that exists
mkdir(st) ==
  IF st = "absent" THEN [err |-> "", st |-> "ok"] ELSE [err |-> "EEXIST", st |-> st]

\* one directory of findPlugin: try { readdir } catch { await mkdir }; the
\* error of mkdir is not caught
scanDir(st, entries) ==
  LET r == readdir(st, entries)
      m == mkdir(st)
  IN IF r.err = "" THEN [err |-> "", list |-> r.list, st |-> st]
     ELSE [err |-> m.err, list |-> {}, st |-> m.st]

\* findPlugin() on directories in the states st that hold the loadable
\* entries ds: the plugins directory, then node_modules, of which the
\* entries whose name starts with the prefix count.  The result is
\* [err, plugins, modules, st]: err "" when the promise resolves, st the
\* directories afterwards.
findPluginAt(st, ds) ==
  LET p == scanDir(st.plugins, ds.plugins)
      m == scanDir(st.modules, ds.modules)
  IN IF p.err # ""
     THEN [err |-> p.err, plugins |-> {}, modules |-> {}, st |-> st]
     ELSE IF m.err # ""
     THEN [err |-> m.err, plugins |-> {}, modules |-> {},
           st |-> [st EXCEPT !.plugins = p.st]]
     ELSE [err |-> "", plugins |-> p.list,
           modules |-> {e \in m.list : Len(e) > 0 /\ Head(e) = PFX},
           st |-> [plugins |-> p.st, modules |-> m.st]]

\* findPlugin: the loadable entries of the plugins directory, and the entries
\* of node_modules whose name starts with the prefix
findPlugin ==
  [plugins |-> findPluginAt(AllOk, dirs).plugins,
   modules |-> findPluginAt(AllOk, dirs).modules]

\* importPlugin's search: the local entries that match the name, and when
\* there is none the node_modules entries that do.  readdir lists a
\* directory in no fixed order, so the first match is any match.
CandidatesModulesFirst(raw) ==
  LET found == findPlugin
      local == {e \in found.plugins : e = raw \/ e = AddPrefix(raw)}
      mods == {e \in found.modules : e = raw \/ e = AddPrefix(raw)}
  IN IF mods # {} THEN {[dir |-> "node_modules", entry |-> e] : e \in mods}
     ELSE {[dir |-> "plugins", entry |-> e] : e \in local}

CandidatesOf(found, raw) ==
  LET local == {e \in found.plugins : e = raw \/ e = AddPrefix(raw)}
      mods == {e \in found.modules : e = raw \/ e = AddPrefix(raw)}
  IN IF local # {} THEN {[dir |-> "plugins", entry |-> e] : e \in local}
     ELSE {[dir |-> "node_modules", entry |-> e] : e \in mods}

Candidates(raw) == CandidatesOf(findPlugin, raw)

\* new Plugin() as the module's code builds it: the constructor attaches
\* bindEvents, the code schedules its job and may register an onBind callback
Construct(W, i) ==
  [W EXCEPT !.created = i,
            !.bot_list[i] = <<>>,
            !.jobs[i] = JobsAtLoad,
            !.bind_listeners[i] =
               IF hook = "none" THEN <<"bindEvents">> ELSE <<"bindEvents", "bind_func">>,
            !.unbind_listeners[i] = IF hook = "none" THEN <<>> ELSE <<HookEntry>>]

\* the instance require(p) yields: the cached module's, or a new one
Required(W, p) ==
  IF W.require_cache[p] # NoInst THEN W.require_cache[p] ELSE W.created + 1

\* importPlugin after findPlugin has resolved, with p the path found (NoPath:
\* no candidate).  The result's field inst is the plugin returned.
ImportRestNoRegister(W, raw, p) ==
  IF p = NoPath THEN Throw(W, "PluginNotFound") @@ [inst |-> NoInst]
  ELSE IF ~ExportsPlugin(p) THEN Throw(W, "PluginNotInstantiated") @@ [inst |-> NoInst]
  ELSE LET i == Required(W, p)
           W1 == IF W.require_cache[p] # NoInst THEN W ELSE Construct(W, i)
       IN [W1 EXCEPT !.require_cache[p] = i,
                     !.name[i] = StripPrefix(raw),
                     !.path[i] = p] @@ [inst |-> i]

ImportRest(W, raw, p) ==
  IF p = NoPath THEN Throw(W, "PluginNotFound") @@ [inst |-> NoInst]
  ELSE IF ~ExportsPlugin(p) THEN Throw(W, "PluginNotInstantiated") @@ [inst |-> NoInst]
  ELSE LET i == Required(W, p)
           W1 == IF W.require_cache[p] # NoInst THEN W ELSE Construct(W, i)
       IN [W1 EXCEPT !.require_cache[p] = i,
                     !.name[i] = StripPrefix(raw),
                     !.path[i] = p,
                     !.plugin_list[StripPrefix(raw)] = i] @@ [inst |-> i]

\* a group's entry of the SettingStore: [exists, plugin], plugin mapping a
\* plugin name to its Option, or to Undefined
NoOptions == [n \in RegKeys |-> Undefined]
NoEntry == [exists |-> FALSE, plugin |-> NoOptions]
NewEntry == [exists |-> TRUE, plugin |-> NoOptions]

\* the option loop of bindBot over the groups of the roster, in Map order
RECURSIVE BindOptions(_, _, _, _)
BindOptions(W, n, uin, gs) ==
  IF gs = <<>> THEN W
  ELSE LET g == Head(gs)
           e == IF W.setting[uin].groups[g].exists THEN W.setting[uin].groups[g] ELSE NewEntry
           W1 == [W EXCEPT !.setting[uin].groups[g] = e]
           m == deepMerge(deepClone(DefaultOption), e.plugin[n])
       IN IF m.err THEN Throw(W1, "TypeError")
          ELSE BindOptions([W1 EXCEPT !.setting[uin].groups[g].plugin[n] = Defined(m.o)],
                           n, uin, Tail(gs))

\* bindBot(name, uin)
bindBotNoOptions(W, n, uin) ==
  IF ~Has(W, n) THEN Throw(W, "PluginUndefined")
  ELSE LET W1 == PluginBindBot(W, W.plugin_list[n], uin)
       IN IF W1.err # "" THEN W1
          ELSE IF n \in Range(W1.setting[uin].plugins) THEN W1
               ELSE [W1 EXCEPT !.setting[uin].plugins = Append(@, n)]

bindBot(W, n, uin) ==
  IF ~Has(W, n) THEN Throw(W, "PluginUndefined")
  ELSE LET W1 == PluginBindBot(W, W.plugin_list[n], uin)
           W2 == IF n \in Range(W1.setting[uin].plugins) THEN W1
                 ELSE [W1 EXCEPT !.setting[uin].plugins = Append(@, n)]
       IN IF W1.err # "" THEN W1 ELSE BindOptions(W2, n, uin, roster[uin])

\* [...new Set(list)]: the list without its repeated elements
Dedupe(s) == SelectSeq([k \in 1..Len(s) |-> [v |-> s[k], first |-> FirstIndex(s, s[k]) = k]],
                       LAMBDA x : x.first)

SetList(s) == [k \in 1..Len(Dedupe(s)) |-> Dedupe(s)[k].v]

\* the option loop of unbindBot: setting[group_id].group_name is read of an
\* entry that may not exist
RECURSIVE UnbindOptions(_, _, _, _)
UnbindOptions(W, n, uin, gs) ==
  IF gs = <<>> THEN W
  ELSE LET g == Head(gs)
       IN IF ~W.setting[uin].groups[g].exists THEN Throw(W, "TypeError")
          ELSE UnbindOptions([W EXCEPT !.setting[uin].groups[g].plugin[n] = Undefined],
                             n, uin, Tail(gs))

\* unbindBot(name, uin)
unbindBotKeepPlugins(W, n, uin) ==
  IF ~Has(W, n) THEN Throw(W, "PluginUndefined")
  ELSE LET W1 == PluginUnbindBot(W, W.plugin_list[n], uin)
       IN IF W1.err # "" THEN W1 ELSE UnbindOptions(W1, n, uin, roster[uin])

unbindBot(W, n, uin) ==
  IF ~Has(W, n) THEN Throw(W, "PluginUndefined")
  ELSE LET W1 == PluginUnbindBot(W, W.plugin_list[n], uin)
           W2 == IF n \in Range(W1.setting[uin].plugins)
                 THEN [W1 EXCEPT !.setting[uin].plugins = Without(SetList(@), n)]
                 ELSE W1
       IN IF W1.err # "" THEN W1 ELSE UnbindOptions(W2, n, uin, roster[uin])

\* bindAllBot(name): bindBot for every account of the host, in Map order
UinOrder == <<1, 2>>

RECURSIVE BindEach(_, _, _)
BindEach(W, n, us) ==
  IF us = <<>> \/ W.err # "" THEN W
  ELSE BindEach(bindBot(W, n, Head(us)), n, Tail(us))

bindAllBot(W, n) == BindEach(W, n, UinOrder)

(***************************************************************************)
(* Initial state: no module is loaded; the SettingStore holds what earlier *)
(* runs of the host saved.                                                 *)
(***************************************************************************)
TaskIds == {1, 2}
Idle == [kind |-> "idle", raw |-> <<>>, uin |-> 0, bots |-> <<>>, old |-> NoInst]

NoCall == [op |-> "", inst |-> NoInst, uin |-> 0, res |-> "", raw |-> <<>>, ev |-> "", k |-> 0]
Call(op, i, uin, res, raw) == [NoCall EXCEPT !.op = op, !.inst = i, !.uin = uin, !.res = res, !.raw = raw]

NoDelivery == [i \in Inst |-> 0]
NoRebind == [inst |-> NoInst, uin |-> 0, phase |-> ""]
NoLevelCall == [masters |-> {}, sender |-> [user_id |-> "", level |-> NoLevel, role |-> "undefined"], ret |-> NoLevel]
NoMergeCall == [op |-> "", default |-> EmptyOption, local |-> EmptyOption, ret |-> EmptyOption]
NoScanCall == [op |-> "", raw |-> <<>>, st |-> AllOk, dirs |-> [plugins |-> {}, modules |-> {}],
               found |-> findPluginAt(AllOk, [plugins |-> {}, modules |-> {}]), res |-> ""]
NoDispatchCall == [op |-> ""]

\* what the directories hold: the plugin as a local plugin, as a dependency,
\* or both; "bad" is a loadable entry whose module exports no plugin
DirConfigs ==
  {[plugins |-> {<<"demo">>, <<"bad">>}, modules |-> {}],
   [plugins |-> {<<"bad">>}, modules |-> {<<PFX, "demo">>, <<"demo">>}],
   [plugins |-> {<<PFX, "demo">>}, modules |-> {<<PFX, "demo">>}]}

\* what a group's entry holds for the plugin when the host starts
SavedEntries ==
  {NoEntry, NewEntry,
   [NewEntry EXCEPT !.plugin[<<"demo">>] =
      Defined([k \in {"apply"} |-> Scalar(FALSE)])]}

InitCore ==
  /\ created = 0
  /\ plugin_list = [n \in RegKeys |-> NoInst]
  /\ require_cache = [p \in Paths |-> NoInst]
  /\ name = [i \in Inst |-> <<>>]
  /\ path = [i \in Inst |-> NoPath]
  /\ bot_list = [i \in Inst |-> <<>>]
  /\ jobs = [i \in Inst |-> <<>>]
  /\ bind_listeners = [i \in Inst |-> <<>>]
  /\ unbind_listeners = [i \in Inst |-> <<>>]
  /\ listeners = [u \in Uins |-> [ev \in EventNames |-> <<>>]]
  /\ tasks = [t \in TaskIds |-> Idle]
  /\ last = NoCall
  /\ delivered = NoDelivery
  /\ rebind = NoRebind
  /\ level_call = NoLevelCall
  /\ merge_call = NoMergeCall
  /\ scan_call = NoScanCall
  /\ dispatch_call = NoDispatchCall

InitHost(hooks) ==
  /\ InitCore
  /\ dirs \in DirConfigs
  /\ hook \in hooks
  /\ roster = [u \in Uins |-> <<>>]
  /\ setting = [u \in Uins |-> [plugins |-> <<>>, groups |-> [g \in Groups |-> NoEntry]]]

Init == InitHost(HookKinds) /\ serial = TRUE

(***************************************************************************)
(* Steps.                                                                  *)
(***************************************************************************)
Apply(W) ==
  /\ created' = W.created
  /\ name' = W.name
  /\ path' = W.path
  /\ plugin_list' = W.plugin_list
  /\ require_cache' = W.require_cache
  /\ bot_list' = W.bot_list
  /\ jobs' = W.jobs
  /\ bind_listeners' = W.bind_listeners
  /\ unbind_listeners' = W.unbind_listeners
  /\ listeners' = W.listeners
  /\ setting' = W.setting

\* The history of the pair unbound last: a Plugin.unbindBot that returned
\* starts it, the Plugin.bindBot of the same pair that returns next makes it
\* "rebound"; a call that changes nothing of the plugin's bindings keeps it
\* and any other call on a plugin ends it.
Track(l) ==
  CASE l.op = "Plugin.unbindBot" /\ l.res = "" ->
         [inst |-> l.inst, uin |-> l.uin, phase |-> "unbound"]
    [] l.op = "Plugin.bindBot" /\ l.res = "" /\ l.inst = rebind.inst
          /\ l.uin = rebind.uin /\ rebind.phase = "unbound" ->
         [rebind EXCEPT !.phase = "rebound"]
    [] l.op = "Plugin.bindBot" /\ l.res = "" /\ l.inst = rebind.inst
          /\ l.uin # rebind.uin -> rebind
    [] l.res \in {"AlreadyBound", "NotBound", "PluginUndefined"} -> rebind
    [] l.op \in {"fire", "import", "import.await"} -> rebind
    [] OTHER -> NoRebind

Done(l) == last' = l /\ delivered' = NoDelivery /\ rebind' = Track(l)

Quiet == \A t \in TaskIds : tasks[t].kind = "idle"

\* a caller may start a registry call: any time, or only once the one before
\* has finished
CanCall == serial => Quiet

\* the instances a caller can reach through the registry
Registered(i) == \E n \in RegKeys : plugin_list[n] = i

FreeTask(t) == tasks[t].kind = "idle" /\ \A u \in TaskIds : u < t => tasks[u].kind # "idle"

\* plugin.bindBot(bot) by a caller
PBindBot(i, uin) ==
  /\ CanCall /\ Registered(i)
  /\ LET W == PluginBindBot(World, i, uin)
     IN Apply(W) /\ Done(Call("Plugin.bindBot", i, uin, W.err, <<>>))
  /\ UNCHANGED <<roster, dirs, hook, tasks, serial, pure>>

\* plugin.unbindBot(bot) by a caller
PUnbindBot(i, uin) ==
  /\ CanCall /\ Registered(i)
  /\ LET W == PluginUnbindBot(World, i, uin)
     IN Apply(W) /\ Done(Call("Plugin.unbindBot", i, uin, W.err, <<>>))
  /\ UNCHANGED <<roster, dirs, hook, tasks, serial, pure>>

\* plugin.destroy() by a caller
PDestroy(i) ==
  /\ CanCall /\ Registered(i)
  /\ LET W == PluginDestroy(World, i)
     IN Apply(W)
        /\ Done([Call("Plugin.destroy", i, 0, W.err, name[i]) EXCEPT !.k = Len(bot_list[i])])
  /\ UNCHANGED <<roster, dirs, hook, tasks, serial, pure>>

\* bindBot(name, uin)
RBindBot(raw, uin) ==
  /\ CanCall
  /\ LET W == bindBot(World, raw, uin)
     IN Apply(W)
        /\ Done(Call("bindBot", IF Has(World, raw) THEN plugin_list[raw] ELSE NoInst,
                     uin, W.err, raw))
  /\ UNCHANGED <<roster, dirs, hook, tasks, serial, pure>>

\* disablePlugin(name, uin): getPlugin(name), then unbindBot(name, uin)
RUnbindBot(raw, uin) ==
  /\ CanCall
  /\ LET W == unbindBot(World, raw, uin)
     IN Apply(W)
        /\ Done(Call("unbindBot", IF Has(World, raw) THEN plugin_list[raw] ELSE NoInst,
                     uin, W.err, raw))
  /\ UNCHANGED <<roster, dirs, hook, tasks, serial, pure>>

\* an account emits an event: every listener of the event runs once per time
\* it is listed
Emit(uin, ev) ==
  /\ delivered' = [i \in Inst |-> Count(listeners[uin][ev], i)]
  /\ last' = [Call("emit", NoInst, uin, "", <<>>) EXCEPT !.ev = ev]
  /\ UNCHANGED <<core, setting, roster, dirs, hook, tasks, serial, rebind, pure>>

\* a job of an instance fires: only a job that was not cancelled does
FireJob(i, k) ==
  /\ k \in 1..Len(jobs[i])
  /\ jobs[i][k] = "pending"
  /\ Done([Call("fire", i, 0, "", <<>>) EXCEPT !.k = k])
  /\ UNCHANGED <<core, setting, roster, dirs, hook, tasks, serial, pure>>

\* the account joins a group: its roster grows, the SettingStore does not
GroupJoin(uin, g) ==
  /\ CanCall
  /\ g \notin Range(roster[uin])
  /\ roster' = [roster EXCEPT ![uin] = Append(@, g)]
  /\ Done([Call("join", NoInst, uin, "", <<>>) EXCEPT !.k = g])
  /\ UNCHANGED <<core, setting, dirs, hook, tasks, serial, pure>>

(***************************************************************************)
(* The asynchronous calls.  importPlugin returns at once when the name is  *)
(* registered; otherwise it awaits findPlugin, and everything after that   *)
(* await, the caller's continuation included, runs without a break.        *)
(***************************************************************************)
\* whether require(p) can be modelled: a module not in the cache constructs
\* an instance, and the model holds MaxInst of them
Loadable(p) ==
  IF p = NoPath THEN TRUE
  ELSE IF ~ExportsPlugin(p) THEN TRUE
  ELSE IF require_cache[p] # NoInst THEN TRUE
  ELSE created < MaxInst

\* the path importPlugin finds: any candidate, NoPath when there is none
Found(raw) == IF Candidates(raw) = {} THEN {NoPath} ELSE Candidates(raw)

\* the loop of reloadPlugin: ext.bindBot(bot) for the captured accounts
RECURSIVE RebindEach(_, _, _)
RebindEach(W, i, bots) ==
  IF bots = <<>> \/ W.err # "" THEN W
  ELSE RebindEach(PluginBindBot(W, i, Head(bots)), i, Tail(bots))

\* enablePlugin after its import: plugin_list.has(name) ? bindBot : bindAllBot
EnableRestBindAll(W, raw, uin) == bindAllBot(W, raw)

EnableRest(W, raw, uin) ==
  IF Has(W, raw) THEN bindBot(W, raw, uin) ELSE bindAllBot(W, raw)

\* importPlugin(name) of a registered name: the registered instance
ImportRegistered(raw) ==
  /\ CanCall
  /\ Has(World, StripPrefix(raw))
  /\ Done(Call("import", plugin_list[StripPrefix(raw)], 0, "", raw))
  /\ UNCHANGED <<core, setting, roster, dirs, hook, tasks, serial, pure>>

\* importPlugin(name) of a name not registered: suspended in findPlugin
ImportCall(t, raw) ==
  /\ CanCall /\ FreeTask(t)
  /\ ~Has(World, StripPrefix(raw))
  /\ tasks' = [tasks EXCEPT ![t] = [Idle EXCEPT !.kind = "import", !.raw = raw]]
  /\ Done(Call("import.await", NoInst, 0, "", raw))
  /\ UNCHANGED <<core, setting, roster, dirs, hook, serial, pure>>

ImportResume(t) ==
  /\ tasks[t].kind = "import"
  /\ \E p \in Found(tasks[t].raw) :
       /\ Loadable(p)
       /\ LET W == ImportRest(World, tasks[t].raw, p)
          IN /\ Apply(W)
             /\ Done(Call("import", W.inst, 0, W.err, tasks[t].raw))
  /\ tasks' = [tasks EXCEPT ![t] = Idle]
  /\ UNCHANGED <<roster, dirs, hook, serial, pure>>

\* enablePlugin(name, uin) of a registered name
EnableRegistered(raw, uin) ==
  /\ CanCall
  /\ Has(World, StripPrefix(raw))
  /\ LET W == EnableRest(World, raw, uin)
     IN Apply(W) /\ Done(Call("enable", plugin_list[StripPrefix(raw)], uin, W.err, raw))
  /\ UNCHANGED <<roster, dirs, hook, tasks, serial, pure>>

EnableCall(t, raw, uin) ==
  /\ CanCall /\ FreeTask(t)
  /\ ~Has(World, StripPrefix(raw))
  /\ tasks' = [tasks EXCEPT ![t] = [Idle EXCEPT !.kind = "enable", !.raw = raw, !.uin = uin]]
  /\ Done(Call("enable.await", NoInst, uin, "", raw))
  /\ UNCHANGED <<core, setting, roster, dirs, hook, serial, pure>>

EnableResume(t) ==
  /\ tasks[t].kind = "enable"
  /\ \E p \in Found(tasks[t].raw) :
       /\ Loadable(p)
       /\ LET W1 == ImportRest(World, tasks[t].raw, p)
              W == IF W1.err # "" THEN W1 ELSE EnableRest(W1, tasks[t].raw, tasks[t].uin)
          IN /\ Apply(W)
             /\ Done(Call("enable", W1.inst, tasks[t].uin, W.err, tasks[t].raw))
  /\ tasks' = [tasks EXCEPT ![t] = Idle]
  /\ UNCHANGED <<roster, dirs, hook, serial, pure>>

\* reloadPlugin(name) of a name that is not registered: getPlugin throws
ReloadUndefined(raw) ==
  /\ CanCall
  /\ ~Has(World, raw)
  /\ Done(Call("reload", NoInst, 0, "PluginUndefined", raw))
  /\ UNCHANGED <<core, setting, roster, dirs, hook, tasks, serial, pure>>

\* reloadPlugin(name): the bound accounts are captured, the instance is
\* destroyed, and the import that follows awaits findPlugin
ReloadCall(t, raw) ==
  /\ CanCall /\ FreeTask(t)
  /\ Has(World, raw)
  /\ LET i == plugin_list[raw]
         W == PluginDestroy(World, i)
     IN /\ Apply(W)
        /\ IF W.err # ""
           THEN /\ Done([Call("reload", i, 0, W.err, raw) EXCEPT !.k = Len(bot_list[i])])
                /\ UNCHANGED tasks
           ELSE /\ Done([Call("reload.await", i, 0, "", raw) EXCEPT !.k = Len(bot_list[i])])
                /\ tasks' = [tasks EXCEPT ![t] =
                     [Idle EXCEPT !.kind = "reload", !.raw = raw, !.old = i,
                                  !.bots = bot_list[i]]]
  /\ UNCHANGED <<roster, dirs, hook, serial, pure>>

ReloadResume(t) ==
  /\ tasks[t].kind = "reload"
  /\ \E p \in Found(tasks[t].raw) :
       /\ Loadable(p)
       /\ LET W1 == ImportRest(World, tasks[t].raw, p)
              W == IF W1.err # "" THEN W1 ELSE RebindEach(W1, W1.inst, tasks[t].bots)
          IN /\ Apply(W)
             /\ Done([Call("reload", W1.inst, 0, W.err, tasks[t].raw)
                       EXCEPT !.k = Len(tasks[t].bots)])
  /\ tasks' = [tasks EXCEPT ![t] = Idle]
  /\ UNCHANGED <<roster, dirs, hook, serial, pure>>

\* The lifecycle of the plugin objects: the Plugin methods, import, reload,
\* the accounts' events and the jobs.
Next ==
  \/ \E i \in Inst, uin \in Uins : PBindBot(i, uin)
  \/ \E i \in Inst, uin \in Uins : PUnbindBot(i, uin)
  \/ \E i \in Inst : PDestroy(i)
  \/ \E uin \in Uins, ev \in EventNames : Emit(uin, ev)
  \/ \E i \in Inst, k \in 1..Len(JobsAtLoad) : FireJob(i, k)
  \/ \E raw \in RawNames : ImportRegistered(raw)
  \/ \E t \in TaskIds, raw \in RawNames : ImportCall(t, raw)
  \/ \E t \in TaskIds : ImportResume(t)
  \/ \E raw \in RawNames : ReloadUndefined(raw)
  \/ \E t \in TaskIds, raw \in RawNames : ReloadCall(t, raw)
  \/ \E t \in TaskIds : ReloadResume(t)

Spec == Init /\ [][Next]_vars

\* An entry leaves its directory: the operator removes or renames the
\* plugin's source, and findPlugin's next readdir no longer lists it.
RemoveSource(d, e) ==
  /\ Quiet
  /\ e \in dirs[d]
  /\ dirs' = [dirs EXCEPT ![d] = @ \ {e}]
  /\ Done(Call("rm", NoInst, 0, "", e))
  /\ UNCHANGED <<core, setting, roster, hook, tasks, serial, pure>>

\* The lifecycle while the directories change under the host; the plugin's
\* code registers no onBind callback.
InitEdit == InitHost({"none"}) /\ serial = TRUE

NextEdit ==
  \/ Next
  \/ \E d \in {"plugins", "modules"}, e \in Entries : RemoveSource(d, e)

SpecEdit == InitEdit /\ [][NextEdit]_vars

\* The registry's asynchronous calls on one plugin, started without waiting
\* for the one before: import, enablePlugin and reloadPlugin interleave at
\* their await of findPlugin.  Accounts are bound while no call is pending.
InitConc ==
  /\ InitCore
  /\ dirs = [plugins |-> {<<"demo">>}, modules |-> {}]
  /\ hook = "none"
  /\ serial = FALSE
  /\ roster = [u \in Uins |-> <<>>]
  /\ setting = [u \in Uins |-> [plugins |-> <<>>, groups |-> [g \in Groups |-> NoEntry]]]

Setup(i, uin) == Quiet /\ PBindBot(i, uin)

NextConc ==
  \/ \E i \in Inst, uin \in Uins : Setup(i, uin)
  \/ \E raw \in BindNames : ImportRegistered(raw)
  \/ \E t \in TaskIds, raw \in BindNames : ImportCall(t, raw)
  \/ \E t \in TaskIds : ImportResume(t)
  \/ \E raw \in BindNames, uin \in Uins : EnableRegistered(raw, uin)
  \/ \E t \in TaskIds, raw \in BindNames, uin \in Uins : EnableCall(t, raw, uin)
  \/ \E t \in TaskIds : EnableResume(t)
  \/ \E raw \in BindNames : ReloadUndefined(raw)
  \/ \E t \in TaskIds, raw \in BindNames : ReloadCall(t, raw)
  \/ \E t \in TaskIds : ReloadResume(t)

SpecConc == InitConc /\ [][NextConc]_vars

\* The registry's bind and unbind with the SettingStore: bindBot, unbindBot,
\* enablePlugin, the Plugin methods under them, and the roster.
InitSetting ==
  /\ InitCore
  /\ dirs = [plugins |-> {<<"demo">>, <<"bad">>}, modules |-> {}]
  /\ hook = "none"
  /\ serial = TRUE
  /\ roster = [u \in Uins |-> IF u = 1 THEN <<10>> ELSE <<>>]
  /\ \E e \in SavedEntries :
       setting = [u \in Uins |->
                    [plugins |-> <<>>,
                     groups |-> [g \in Groups |-> IF g = 10 THEN e ELSE NoEntry]]]

NextSetting ==
  \/ \E raw \in BindNames, uin \in Uins : RBindBot(raw, uin)
  \/ \E raw \in BindNames, uin \in Uins : RUnbindBot(raw, uin)
  \/ \E i \in Inst, uin \in Uins : PBindBot(i, uin)
  \/ \E i \in Inst, uin \in Uins : PUnbindBot(i, uin)
  \/ \E uin \in Uins, g \in Groups : GroupJoin(uin, g)
  \/ \E raw \in BindNames, uin \in Uins : EnableRegistered(raw, uin)
  \/ \E t \in TaskIds, raw \in BindNames, uin \in Uins : EnableCall(t, raw, uin)
  \/ \E t \in TaskIds : EnableResume(t)

SpecSetting == InitSetting /\ [][NextSetting]_vars

(***************************************************************************)
(* getUserLevel on its own: every sender and master list of the bounds.    *)
(***************************************************************************)
InitPure ==
  /\ InitCore
  /\ dirs = [plugins |-> {}, modules |-> {}]
  /\ hook = "none"
  /\ serial = TRUE
  /\ roster = [u \in Uins |-> <<>>]
  /\ setting = [u \in Uins |-> [plugins |-> <<>>, groups |-> [g \in Groups |-> NoEntry]]]

host == <<core, setting, roster, dirs, hook, tasks, serial, last, delivered, rebind>>

LevelCall(masters, sender) ==
  /\ level_call = NoLevelCall
  /\ level_call' = [masters |-> masters, sender |-> sender,
                    ret |-> getUserLevel(masters, sender)]
  /\ UNCHANGED <<host, merge_call, scan_call, dispatch_call>>

NextLevel == \E masters \in SUBSET UserIds, sender \in Senders : LevelCall(masters, sender)

SpecLevel == InitPure /\ [][NextLevel]_vars

(***************************************************************************)
(* The option merge of bindBot on its own: a plugin's default option is    *)
(* merged with a group's local option, and the stored result is merged     *)
(* with the default again at the next bind.                                *)
(***************************************************************************)
OptionKeys == {"apply", "lock", "mode", "tags"}
ScalarValues == {Scalar(TRUE), Scalar(FALSE)}
ArrayValues == {Array(<<>>), Array(<<3>>), Array(<<3, 4, 5>>)}

\* every option over some of the keys
OptionsOver(keys, values) == UNION {[ks -> values] : ks \in SUBSET keys}

\* the default options of the modelled plugins: the constructor's default,
\* alone or with an array-valued setting of the plugin's own
DefaultOptions ==
  {DefaultOption,
   [k \in {"apply", "lock", "tags"} |->
      IF k = "tags" THEN Array(<<1, 2>>) ELSE DefaultOption[k]]}

LocalOptions == OptionsOver(OptionKeys, ScalarValues \cup ArrayValues)

\* bindBot's merge: deepMerge(plugin.getOption(), local_option)
BindMergeNoClone(default, local) == deepMerge(local, Defined(default)).o

BindMerge(default, local) == deepMerge(deepClone(default), Defined(local)).o

MergeFirst(default, local) ==
  /\ merge_call = NoMergeCall
  /\ merge_call' = [op |-> "merge", default |-> default, local |-> local,
                    ret |-> BindMerge(default, local)]
  /\ UNCHANGED <<host, level_call, scan_call, dispatch_call>>

\* the next bind finds the stored result as the group's local option
MergeAgain ==
  /\ merge_call.op \in {"merge", "again"}
  /\ merge_call' = [op |-> "again", default |-> merge_call.default,
                    local |-> merge_call.ret,
                    ret |-> BindMerge(merge_call.default, merge_call.ret)]
  /\ UNCHANGED <<host, level_call, scan_call, dispatch_call>>

NextMerge ==
  \/ \E default \in DefaultOptions, local \in LocalOptions : MergeFirst(default, local)
  \/ MergeAgain

SpecMerge == InitPure /\ [][NextMerge]_vars

(***************************************************************************)
(* findPlugin on its own: the directories in every state, and what          *)
(* importPlugin and importAllPlugin make of its result.                     *)
(***************************************************************************)
ScanDirs == DirConfigs \cup {[plugins |-> {}, modules |-> {}]}
ScanStates == [DirNames -> DirStates]

\* importPlugin(name) of a name that is not registered, from findPlugin's
\* result on: the catch rethrows whatever the try block threw
importError(found, raw) ==
  IF found.err # "" THEN found.err
  ELSE IF CandidatesOf(found, raw) = {} THEN "PluginNotFound"
  ELSE IF \A p \in CandidatesOf(found, raw) : ~ExportsPlugin(p) THEN "PluginNotInstantiated"
  ELSE ""

\* importAllPlugin(): findPlugin is awaited outside the try block; the
\* errors of the imports are swallowed
importAllError(found) == found.err

\* the record of a call: the directories given, findPlugin's result, and the
\* error the call ended with
Scanned(op, st, ds, raw, res) ==
  [op |-> op, raw |-> raw, st |-> st, dirs |-> ds,
   found |-> findPluginAt(st, ds), res |-> res]

FindPluginCall(st, ds) ==
  /\ scan_call = NoScanCall
  /\ scan_call' = Scanned("findPlugin", st, ds, <<>>, findPluginAt(st, ds).err)
  /\ UNCHANGED <<host, level_call, merge_call, dispatch_call>>

ImportScanCall(st, ds, raw) ==
  /\ scan_call = NoScanCall
  /\ scan_call' = Scanned("importPlugin", st, ds, raw,
                          importError(findPluginAt(st, ds), raw))
  /\ UNCHANGED <<host, level_call, merge_call, dispatch_call>>

ImportAllScanCall(st, ds) ==
  /\ scan_call = NoScanCall
  /\ scan_call' = Scanned("importAllPlugin", st, ds, <<>>,
                          importAllError(findPluginAt(st, ds)))
  /\ UNCHANGED <<host, level_call, merge_call, dispatch_call>>

NextScan ==
  \/ \E st \in ScanStates, ds \in ScanDirs : FindPluginCall(st, ds)
  \/ \E st \in ScanStates, ds \in ScanDirs, raw \in RawNames : ImportScanCall(st, ds, raw)
  \/ \E st \in ScanStates, ds \in ScanDirs : ImportAllScanCall(st, ds)

SpecScan == InitPure /\ [][NextScan]_vars

(***************************************************************************)
(* Dispatch on its own: every command and message of the bounds.            *)
(***************************************************************************)
Dispatch ==
  /\ dispatch_call = NoDispatchCall
  /\ \E cmd \in Commands, ev \in Events :
       dispatch_call' = [op |-> "parse", cmd |-> cmd, ev |-> ev,
                         args |-> parseArgs(cmd.args, ev.words),
                         out |-> parse(cmd, ev)]
  /\ UNCHANGED <<host, level_call, merge_call, scan_call>>

NextDispatch == Dispatch

SpecDispatch == InitPure /\ [][NextDispatch]_vars

(***************************************************************************)
(* Properties.                                                             *)
(***************************************************************************)
\* how many live subscriptions instance i has for event ev of account uin
Wired(uin, ev, i) == Count(listeners[uin][ev], i)

\* C1: Plugin.bindBot of an account that is already bound fails with
\* AlreadyBound and Plugin.unbindBot of an account that is not bound fails
\* with NotBound (and they fail so in no other case); a call that failed so
\* left the plugin's bound accounts, every account's event wiring and the
\* plugin's jobs as they were.
C1_BindUnbindGuarded ==
  [][ /\ (last'.op = "Plugin.bindBot")
           => (last'.res = "AlreadyBound" <=> last'.uin \in Range(bot_list[last'.inst]))
      /\ (last'.op = "Plugin.unbindBot")
           => (last'.res = "NotBound" <=> last'.uin \notin Range(bot_list[last'.inst]))
      /\ (last'.op \in {"Plugin.bindBot", "Plugin.unbindBot"}
            /\ last'.res \in {"AlreadyBound", "NotBound"})
           => UNCHANGED <<bot_list, listeners, jobs, unbind_listeners>>
    ]_vars

\* a bindBot failed with AlreadyBound on a plugin bound to both accounts,
\* wired on both, with its job pending
C1_Witness ==
  /\ last.op = "Plugin.bindBot" /\ last.res = "AlreadyBound"
  /\ Len(bot_list[last.inst]) = 2
  /\ \A u \in Uins : Wired(u, "message", last.inst) = 1
  /\ "pending" \in Range(jobs[last.inst])

\* C2: after unbindBot(A) returned on plugin P, an event A emits before
\* bindBot(A) is not delivered to P, and once bindBot(A) has returned an event
\* A emits is delivered to P exactly once, whatever binds and unbinds came
\* before.
C2_RebindRestoresDelivery ==
  (last.op = "emit" /\ rebind.inst # NoInst /\ last.uin = rebind.uin)
    => delivered[rebind.inst] = (IF rebind.phase = "rebound" THEN 1 ELSE 0)

\* an event of the account bound again reached the plugin once, on a plugin
\* that is bound to the other account as well
C2_Witness ==
  /\ last.op = "emit" /\ rebind.phase = "rebound" /\ last.uin = rebind.uin
  /\ delivered[rebind.inst] = 1
  /\ Len(bot_list[rebind.inst]) = 2

\* C3: a Plugin.unbindBot(A) that returned left, for every account still
\* bound to the plugin, the account's event wiring as it was.
C3_UnbindKeepsOtherWiring ==
  [][ (last'.op = "Plugin.unbindBot" /\ last'.res = "")
        => \A b \in Range(bot_list'[last'.inst]) : listeners'[b] = listeners[b]
    ]_vars

\* C4: reloadPlugin captures the accounts bound when it is called, and a
\* reload that completes leaves under the plugin's name a newly constructed
\* instance, other than the old one, bound to the captured accounts in their
\* order, wired once for every event on each of them; the old instance is
\* bound to no account.
C4_ReloadPreservesBindings ==
  [][ /\ (last'.op = "reload.await")
           => \E t \in TaskIds :
                /\ tasks[t].kind = "idle" /\ tasks'[t].kind = "reload"
                /\ tasks'[t].old = plugin_list[last'.raw]
                /\ tasks'[t].bots = bot_list[plugin_list[last'.raw]]
      /\ (last'.op = "reload" /\ last'.res = "")
           => \E t \in TaskIds :
                /\ tasks[t].kind = "reload" /\ tasks'[t].kind = "idle"
                /\ LET old == tasks[t].old
                       new == plugin_list'[tasks[t].raw]
                   IN /\ new # NoInst /\ new # old
                      /\ created' = created + 1 /\ new = created'
                      /\ bot_list'[new] = tasks[t].bots
                      /\ \A b \in Range(tasks[t].bots), ev \in EventNames :
                           Count(listeners'[b][ev], new) = 1
                      /\ bot_list'[old] = <<>>
    ]_vars

\* a reload completed for a plugin that was bound to both accounts
C4_Witness ==
  /\ last.op = "reload" /\ last.res = "" /\ last.k = 2
  /\ Len(bot_list[last.inst]) = 2

\* C5: after a destroy() that returned, of a plugin that was bound to at least
\* one account, no account has a live subscription of the plugin, the plugin
\* is bound to no account, none of its jobs is pending and the registry has
\* no entry under its name.
C5_DestroyCascades ==
  (last.op \in {"Plugin.destroy", "reload.await"} /\ last.res = "" /\ last.k > 0)
    => /\ \A u \in Uins, ev \in EventNames : Wired(u, ev, last.inst) = 0
       /\ bot_list[last.inst] = <<>>
       /\ "pending" \notin Range(jobs[last.inst])
       /\ plugin_list[last.raw] = NoInst

\* a plugin bound to both accounts was destroyed
C5_Witness ==
  /\ last.op = "Plugin.destroy" /\ last.res = "" /\ last.k = 2
  /\ jobs[last.inst] # <<>>

\* C6: getUserLevel returns a tier of 0..6, the first that applies of:
\* maintainer 6, master 5, owner 4, admin 3, level above 4 gives 2, level
\* above 2 gives 1, else 0.
C6_UserLevelOrder ==
  level_call # NoLevelCall =>
    LET s == level_call.sender
        r == level_call.ret
        listed == s.user_id \in admins \/ s.user_id \in level_call.masters
        ranked == s.role \in {"owner", "admin"}
    IN /\ r \in 0..6
       /\ s.user_id \in admins => r = 6
       /\ (s.user_id \notin admins /\ s.user_id \in level_call.masters) => r = 5
       /\ (~listed /\ s.role = "owner") => r = 4
       /\ (~listed /\ s.role = "admin") => r = 3
       /\ (~listed /\ ~ranked /\ s.level >= 5) => r = 2
       /\ (~listed /\ ~ranked /\ s.level \in {3, 4}) => r = 1
       /\ (~listed /\ ~ranked /\ s.level <= 2) => r = 0

\* a maintainer who is also a master of the account resolved to 6
C6_Witness ==
  /\ level_call.ret = 6
  /\ level_call.sender.user_id \in level_call.masters
  /\ level_call.sender.role = "member" /\ level_call.sender.level = 0

\* C7: in the merge of a default option with a group's local option, every
\* key the local option sets to a scalar, the default holding no array for
\* it, has its local value, and every key only the default has takes the
\* default's value; {apply: true, lock: false} with {apply: false} gives
\* {apply: false, lock: false}; merging the default with the result again
\* gives the result.
C7_MergeScalarLeaves ==
  /\ merge_call.op = "merge" =>
       LET d == merge_call.default
           l == merge_call.local
           r == merge_call.ret
       IN /\ \A k \in DOMAIN l :
               (~l[k].arr /\ (k \in DOMAIN d => ~d[k].arr))
                 => (k \in DOMAIN r /\ r[k] = l[k])
          /\ \A k \in (DOMAIN d) \ (DOMAIN l) : k \in DOMAIN r /\ r[k] = d[k]
          /\ (d = DefaultOption /\ l = [k \in {"apply"} |-> Scalar(FALSE)])
               => r = [k \in {"apply", "lock"} |-> Scalar(FALSE)]
  /\ merge_call.op = "again" => merge_call.ret = merge_call.local

\* the merged option {apply: false, lock: false} was merged with the default
\* a second time
C7_Witness ==
  /\ merge_call.op = "again"
  /\ merge_call.default = DefaultOption
  /\ merge_call.ret = [k \in {"apply", "lock"} |-> Scalar(FALSE)]

\* C8: bindBot(name, uin) of a registered plugin not bound to the account
\* returns, and leaves the name once in the account's plugin list and, for
\* every group of the roster, the default option merged with the group's
\* local option, which is the default option where the group has none.
C8_BindStoresMergedOptions ==
  [][ (last'.op = "bindBot" /\ last'.inst # NoInst
         /\ last'.uin \notin Range(bot_list[last'.inst]))
        => /\ last'.res = ""
           /\ Count(setting'[last'.uin].plugins, last'.raw) = 1
           /\ \A g \in Range(roster[last'.uin]) :
                LET local == setting[last'.uin].groups[g].plugin[last'.raw]
                IN setting'[last'.uin].groups[g].plugin[last'.raw] =
                     Defined(IF local.def THEN BindMerge(DefaultOption, local.o)
                             ELSE DefaultOption)
    ]_vars

\* C9: unbindBot(name, uin) of a bound pair returns, and leaves the account's
\* plugin list without the name and every group of the roster without an
\* option of the plugin.
C9_UnbindClearsSettings ==
  [][ (last'.op = "unbindBot" /\ last'.inst # NoInst
         /\ last'.uin \in Range(bot_list[last'.inst]))
        => /\ last'.res = ""
           /\ last'.raw \notin Range(setting'[last'.uin].plugins)
           /\ \A g \in Range(roster[last'.uin]) :
                ~setting'[last'.uin].groups[g].plugin[last'.raw].def
    ]_vars

\* the name without the conventional prefix
Bare(raw) == IF raw # <<>> /\ Head(raw) = PFX THEN Tail(raw) ELSE raw

\* an instance that was constructed and not destroyed
Live(i) == i <= created /\ "bindEvents" \in Range(bind_listeners[i])

\* C10: importPlugin(name), with or without the prefix, of a plugin that is
\* registered under the name returns the registered instance and changes
\* nothing of the registry, the module cache, the plugins and the accounts'
\* wiring; at every moment at most one live instance carries a name, and it
\* is the one registered under it.
C10_ImportIdempotent ==
  [][ /\ (last'.op = "import" /\ plugin_list[Bare(last'.raw)] # NoInst)
           => /\ last'.res = ""
              /\ last'.inst = plugin_list[Bare(last'.raw)]
              /\ UNCHANGED core
      /\ \A i \in Inst : Live(i)' => plugin_list'[name'[i]] = i
    ]_vars

\* import with the prefixed name returned the registered plugin, which is
\* bound and wired
C10_Witness ==
  /\ last.op = "import" /\ last.res = "" /\ last.raw = <<PFX, "demo">>
  /\ created = 1 /\ plugin_list[<<"demo">>] = 1 /\ last.inst = 1
  /\ bot_list[1] # <<>>

\* the loadable entries that importPlugin(raw) looks for, in either directory
Matching(raw) ==
  {e \in dirs.plugins \cup {m \in dirs.modules : m # <<>> /\ Head(m) = PFX} :
     e = raw \/ e = <<PFX>> \o raw}

\* C11: an importPlugin(name) of a name that is not registered fails with
\* PluginNotFound when no local or node_modules entry matches the name and
\* with PluginNotInstantiated when the matching module exports no Plugin;
\* a failed import returns no plugin and leaves every entry of the registry
\* as it was.
C11_FailedImportKeepsRegistry ==
  [][ (last'.op = "import" /\ plugin_list[Bare(last'.raw)] = NoInst)
        => /\ Matching(last'.raw) = {} => last'.res = "PluginNotFound"
           /\ Matching(last'.raw) = {<<"bad">>} => last'.res = "PluginNotInstantiated"
           /\ last'.res # ""
                => /\ last'.res \in {"PluginNotFound", "PluginNotInstantiated"}
                   /\ last'.inst = NoInst
                   /\ plugin_list' = plugin_list
    ]_vars

\* the import of a module that exports no Plugin failed while another plugin
\* is registered and bound
C11_Witness ==
  /\ last.op = "import" /\ last.res = "PluginNotInstantiated"
  /\ last.raw = <<"bad">>
  /\ plugin_list[<<"demo">>] # NoInst
  /\ bot_list[plugin_list[<<"demo">>]] # <<>>
  /\ plugin_list[<<"bad">>] = NoInst

\* C15: a destroy() of a plugin bound to several accounts in which an unbind
\* failed, the failure being reported to the caller, still has unbound every
\* account, removed the plugin from the registry and invalidated its source.
C15_DestroyNotBlocked ==
  (last.op = "Plugin.destroy" /\ last.res # "" /\ last.k > 1)
    => /\ bot_list[last.inst] = <<>>
       /\ plugin_list[last.raw] = NoInst
       /\ require_cache[path[last.inst]] = NoInst

\* C16: a job that is cancelled stays cancelled and does not fire; after a
\* Plugin.unbindBot that returned every job the plugin had scheduled is
\* cancelled, also if the plugin is still bound to other accounts, and binding
\* the plugin again makes none of them pending.
C16_CancelledJobsStay ==
  [][ /\ \A i \in Inst : \A k \in 1..Len(jobs[i]) :
           (i <= created /\ jobs[i][k] = "cancelled")
             => /\ k <= Len(jobs'[i]) /\ jobs'[i][k] = "cancelled"
                /\ ~(last'.op = "fire" /\ last'.inst = i /\ last'.k = k)
      /\ (last'.op = "Plugin.unbindBot" /\ last'.res = "")
           => \A k \in 1..Len(jobs'[last'.inst]) : jobs'[last'.inst][k] = "cancelled"
    ]_vars

\* the plugin was bound to an account again after an unbind cancelled its
\* job, and is bound to both accounts
C16_Witness ==
  /\ last.op = "Plugin.bindBot" /\ last.res = ""
  /\ jobs[last.inst] # <<>> /\ "pending" \notin Range(jobs[last.inst])
  /\ Len(bot_list[last.inst]) = 2

\* C17: when a reloadPlugin call has finished, with its import succeeded or
\* failed, every account that was bound to the plugin when the call was made
\* is bound to the plugin registered under the name, with one live
\* subscription for each event.
C17_ReloadKeepsSubscriptions ==
  [][ \A t \in TaskIds :
        (tasks[t].kind = "reload" /\ tasks'[t].kind = "idle")
          => LET new == plugin_list'[tasks[t].raw]
             IN /\ new # NoInst
                /\ \A b \in Range(tasks[t].bots) :
                     /\ b \in Range(bot_list'[new])
                     /\ \A ev \in EventNames : Count(listeners'[b][ev], new) = 1
    ]_vars

\* C18: a reloadPlugin(name) that ran interleaved with other import,
\* enablePlugin or reloadPlugin calls of the name ends as in a sequential
\* run: exactly one live instance carries the name, it is the registered
\* one, and every account bound when reload was called is bound to it.
C18_InterleavedAsSerial ==
  [][ \A t \in TaskIds :
        (tasks[t].kind = "reload" /\ tasks'[t].kind = "idle")
          => LET new == plugin_list'[tasks[t].raw]
             IN /\ new # NoInst
                /\ \A i \in Inst : (Live(i)' /\ name'[i] = tasks[t].raw) => i = new
                /\ Range(tasks[t].bots) \subseteq Range(bot_list'[new])
    ]_vars

\* C19: the option stored at bind has, for every key the group's local
\* option defines, scalar or array, exactly the local value (a list
\* overridden locally to a shorter or empty list stays that list), and for
\* every key only the default defines the default's value.
C19_LocalOverridesPersist ==
  merge_call.op = "merge" =>
    /\ \A k \in DOMAIN merge_call.local :
         k \in DOMAIN merge_call.ret /\ merge_call.ret[k] = merge_call.local[k]
    /\ \A k \in (DOMAIN merge_call.default) \ (DOMAIN merge_call.local) :
         k \in DOMAIN merge_call.ret /\ merge_call.ret[k] = merge_call.default[k]

\* C20: findPlugin resolves whatever state the two directories are in; a
\* directory whose readdir failed counts as empty, and is there afterwards if
\* it was absent; importPlugin and importAllPlugin do not fail with the error
\* of a scan.
C20_ScanErrorsNotSurfaced ==
  scan_call.op # "" =>
    /\ scan_call.found.err = ""
    /\ \A d \in DirNames :
         scan_call.st[d] # "ok"
           => /\ scan_call.found[d] = {}
              /\ scan_call.st[d] = "absent" => scan_call.found.st[d] = "ok"
    /\ scan_call.res \notin {"ENOENT", "EACCES", "EEXIST"}

\* a dispatch of a command that matched its message
Matched == dispatch_call.op = "parse" /\ isMatched(dispatch_call.cmd, dispatch_call.ev)

\* the declared arguments that are required and whose slot is absent or empty
Missing ==
  {i \in 1..Len(dispatch_call.cmd.args) :
     /\ dispatch_call.cmd.args[i].required
     /\ \/ i > Len(dispatch_call.ev.words)
        \/ i > Len(dispatch_call.args)
        \/ dispatch_call.args[i].kind = "undefined"
        \/ dispatch_call.args[i].kind = "list" /\ dispatch_call.args[i].l = <<>>}

OutKinds == {dispatch_call.out[k].kind : k \in 1..Len(dispatch_call.out)}

\* the sender's tier is below the command's floor: a plain member and a
\* command for group administrators
BelowFloor == dispatch_call.ev.sender.role = "member" /\ dispatch_call.cmd.floor = 3

\* C12 as stated: for every matched command and every declared argument that
\* is required and whose slot is absent or empty, the dispatch replies with
\* an error naming that argument, and invokes neither the handler nor the
\* stop fallback.
C12_EveryMissingNamed ==
  Matched =>
    \A i \in Missing :
      /\ \E k \in 1..Len(dispatch_call.out) :
           /\ dispatch_call.out[k].kind = "argument"
           /\ dispatch_call.out[k].arg = dispatch_call.cmd.args[i].value
      /\ OutKinds \cap {"handler", "stop"} = {}

\* C12, amended: when some required argument's slot is absent or empty, the
\* dispatch replies with one error, naming the first such argument, and
\* invokes neither the handler nor the stop fallback.
C12_FirstMissingNamed ==
  (Matched /\ Missing # {}) =>
    LET i == CHOOSE m \in Missing : \A n \in Missing : m <= n
    IN /\ Len(dispatch_call.out) = 1
       /\ dispatch_call.out[1].kind = "argument"
       /\ dispatch_call.out[1].arg = dispatch_call.cmd.args[i].value
       /\ dispatch_call.out[1].variadic = dispatch_call.cmd.args[i].variadic

\* 'update <key> <value>' with the input 'update apply' is answered with the
\* error naming value
C12_Witness ==
  /\ Matched
  /\ dispatch_call.cmd.args = <<Arg(TRUE, FALSE, "key"), Arg(TRUE, FALSE, "value")>>
  /\ dispatch_call.ev.words = <<"apply">>
  /\ dispatch_call.out = <<ArgumentError("value", FALSE)>>

\* C13: a matched command whose arguments pass validation and whose floor the
\* sender's tier is below is answered with the permission reply and nothing
\* else, whatever the prefix, the conversation and the apply flag; and every
\* matched command has at most one of the four outcomes.
C13_PermissionGate ==
  Matched =>
    /\ Len(dispatch_call.out) <= 1
    /\ OutKinds \subseteq {"argument", "permission", "stop", "handler"}
    /\ (Missing = {} /\ BelowFloor) => dispatch_call.out = <<Effect("permission")>>

\* a member's message to a command with a handler and no prefix, whose
\* arguments are all there, is refused
C13_Witness ==
  /\ Matched
  /\ Missing = {}
  /\ BelowFloor
  /\ dispatch_call.cmd.func
  /\ dispatch_call.cmd.prefix = ""
  /\ dispatch_call.cmd.args # <<>>
  /\ dispatch_call.out = <<Effect("permission")>>

\* C14: for a matched, validated and permitted command: with a non-empty
\* prefix, in a group or discuss conversation whose apply flag is false, the
\* stop fallback is invoked and the handler is not; with an empty prefix the
\* handler is invoked whatever the apply flag; and in a private conversation
\* the handler is invoked whatever the apply flag, whether or not a stop
\* fallback is configured.
C14_ApplyGate ==
  (Matched /\ Missing = {} /\ ~BelowFloor) =>
    /\ ( /\ dispatch_call.cmd.prefix # ""
         /\ dispatch_call.ev.message_type \in {"group", "discuss"}
         /\ ~dispatch_call.ev.apply )
       => /\ "handler" \notin OutKinds
          /\ dispatch_call.cmd.stop => dispatch_call.out = <<Effect("stop")>>
    /\ (dispatch_call.cmd.prefix = "" /\ dispatch_call.cmd.func)
       => dispatch_call.out = <<Effect("handler")>>
    /\ (dispatch_call.ev.message_type = "private" /\ dispatch_call.cmd.func)
       => dispatch_call.out = <<Effect("handler")>>

\* C21: an enablePlugin(name, uin) that returns has bound only the given
\* account when the plugin was registered before the call, and has bound
\* every account of the host when the call itself imported the plugin.
C21_EnableBindsByImport ==
  [][ (last'.op = "enable" /\ last'.res = "")
        => LET i == last'.inst
           IN IF Has(World, StripPrefix(last'.raw))
              THEN /\ plugin_list[StripPrefix(last'.raw)] = i
                   /\ bot_list'[i] = Append(bot_list[i], last'.uin)
              ELSE Range(bot_list'[i]) = Uins
    ]_vars

\* C22: in every state reached by bindBot, unbindBot, destroy and reload, an
\* instance is subscribed at most once to each of its events on each
\* account's emitter, and not at all on an account it is not bound to.
C22_NoSubscriptionLeak ==
  \A i \in Inst, uin \in Uins, ev \in EventNames :
    /\ Count(listeners[uin][ev], i) <= 1
    /\ uin \notin Range(bot_list[i]) => Count(listeners[uin][ev], i) = 0

\* C23: a destroy() that returns on a plugin bound to no account, by a caller
\* or inside reloadPlugin, leaves none of the plugin's jobs pending, and no
\* job fires of an instance that has left the registry.
C23_DestroyCancelsUnboundJobs ==
  [][ /\ ( /\ last'.op \in {"Plugin.destroy", "reload.await"}
           /\ last'.res = ""
           /\ bot_list[last'.inst] = <<>> )
         => "pending" \notin Range(jobs'[last'.inst])
      /\ last'.op = "fire" => Registered(last'.inst)
    ]_vars

=============================================================================
